---- MODULE Spec2Model ----
(***************************************************************************)
(* Model of find_unused.py: the export collector (get_exports), the usage  *)
(* checker (is_used) and the report loop (main).                           *)
(*                                                                         *)
(* Text is modelled as sequences of tokens.  A file's content is the       *)
(* sequence of its whitespace-separated words and punctuation marks; a     *)
(* path is the sequence of its pieces ("src", "/", "a", ".test", ".ts"),   *)
(* so that str.endswith is a suffix test and os.path.join a concatenation. *)
(***************************************************************************)
EXTENDS Integers, Sequences, FiniteSets, TLC

\* ------------------------------------------------------------------ bounds
\* Largest number of files present in the scanned tree.
MaxFiles == 3

\* ------------------------------------------------------- the scanned trees
\* main(): src_dir = 'src'
src_dir == <<"src">>

\* The working directory os.path.abspath resolves relative paths against.
Cwd == <<"/", "work", "/">>

\* Directory entries a tree is built from.  `symlink` entries are listed by
\* os.walk and followed by open(), but `grep -r` does not follow them.
PathCatalog ==
  << [root |-> <<"src">>, file |-> <<"a", ".ts">>,          symlink |-> FALSE],
     [root |-> <<"src">>, file |-> <<"b", ".tsx">>,         symlink |-> FALSE],
     [root |-> <<"src">>, file |-> <<"a", ".test", ".ts">>, symlink |-> FALSE],
     [root |-> <<"src">>, file |-> <<"l", ".ts">>,          symlink |-> TRUE],
     [root |-> <<"src">>, file |-> <<"r", ".md">>,          symlink |-> FALSE] >>

FileIds == 1..Len(PathCatalog)

Absent == <<"<absent>">>

\* File contents a tree is built from.
Contents ==
  { <<"export", "const", "Foo">>,
    <<"Foo">>,
    <<"export", "{", "Foo", ",", "Bar", "}">>,
    <<"export", "{", "default", "}">>,
    <<"export", "const", "Foo", "export", "{", "Foo", "}">>,
    <<"export", "default", "Bar">> }

Trees ==
  { t \in [FileIds -> Contents \cup {Absent}] :
      Cardinality({f \in FileIds : t[f] # Absent}) <= MaxFiles }

\* ------------------------------------------------------------ string tools
\* str.endswith(suffix)
EndsWith(s, suffix) ==
  /\ Len(s) >= Len(suffix)
  /\ SubSeq(s, Len(s) - Len(suffix) + 1, Len(s)) = suffix

\* os.path.join(root, file)
Join(root, file) == root \o <<"/">> \o file

\* os.path.abspath(p) for a relative path p
abspath(p) == Cwd \o p

PathOf(f) == Join(PathCatalog[f].root, PathCatalog[f].file)

\* ------------------------------------------------------------- get_exports
\* Tokens that are not matched by [a-zA-Z0-9_]+
Punctuation == {"{", "}", ","}

IsWord(t) == t \notin Punctuation

\* (?:const|function|class|type|interface|enum) of the first pattern
DeclKeywords == {"const", "function", "class", "type", "interface", "enum"}

NoMatch == [ok |-> FALSE, name |-> "", end |-> 0]

\* export\s+(?:const|...|enum)\s+([a-zA-Z0-9_]+) tried at token i
MatchDecl(c, i) ==
  IF /\ i + 2 <= Len(c)
     /\ c[i] = "export"
     /\ c[i + 1] \in DeclKeywords
     /\ IsWord(c[i + 2])
  THEN [ok |-> TRUE, name |-> c[i + 2], end |-> i + 2]
  ELSE NoMatch

\* export\s+default\s+([a-zA-Z0-9_]+) tried at token i
MatchDefault(c, i) ==
  IF /\ i + 2 <= Len(c)
     /\ c[i] = "export"
     /\ c[i + 1] = "default"
     /\ IsWord(c[i + 2])
  THEN [ok |-> TRUE, name |-> c[i + 2], end |-> i + 2]
  ELSE NoMatch

\* export\s+{[^}]*?\b([a-zA-Z0-9_]+)\b[^}]*?} tried at token i: the lazy
\* [^}]*? stops at the first word after the brace, the group takes that word
\* and the rest of the pattern runs to the first closing brace after it.
MatchBraces(c, i) ==
  IF /\ i + 1 <= Len(c)
     /\ c[i] = "export"
     /\ c[i + 1] = "{"
  THEN LET after  == (i + 2)..Len(c)
           stops  == {k \in after : IsWord(c[k]) \/ c[k] = "}"}
           w      == IF stops = {} THEN 0
                     ELSE CHOOSE k \in stops : \A j \in stops : k <= j
           closes == {k \in after : k > w /\ c[k] = "}"}
       IN  IF w = 0 \/ c[w] = "}" \/ closes = {}
           THEN NoMatch
           ELSE [ok |-> TRUE, name |-> c[w],
                 end |-> CHOOSE k \in closes : \A j \in closes : k <= j]
  ELSE NoMatch

\* The list `patterns`, in its order.
patterns == <<"decl", "default", "braces">>

MatchAt(p, c, i) ==
  CASE p = "decl"    -> MatchDecl(c, i)
    [] p = "default" -> MatchDefault(c, i)
    [] p = "braces"  -> MatchBraces(c, i)

\* re.finditer(pattern, content): the non-overlapping matches, left to
\* right; the scan resumes after the end of each match.  Yields group(1).
RECURSIVE finditer(_, _, _)
finditer(p, c, i) ==
  IF i > Len(c) THEN <<>>
  ELSE LET m == MatchAt(p, c, i)
       IN  IF m.ok THEN <<m.name>> \o finditer(p, c, m.end + 1)
           ELSE finditer(p, c, i + 1)

\* The (path, name) pairs one file contributes: for pattern in patterns,
\* for match in matches, exports.append((path, name)).
RECURSIVE FileExports(_, _, _)
FileExports(path, c, k) ==
  IF k > Len(patterns) THEN <<>>
  ELSE LET names == finditer(patterns[k], c, 1)
       IN  [n \in 1..Len(names) |-> <<path, names[n]>>]
             \o FileExports(path, c, k + 1)

\* file.endswith(('.ts', '.tsx')) and not file.endswith('.test.ts')
\* and not file.endswith('.test.tsx')
Eligible(file) ==
  /\ EndsWith(file, <<".ts">>) \/ EndsWith(file, <<".tsx">>)
  /\ ~EndsWith(file, <<".test", ".ts">>)
  /\ ~EndsWith(file, <<".test", ".tsx">>)

\* ----------------------------------------------------------------- is_used
\* f.endswith(('.test.ts', '.test.tsx'))
IsTestPath(f) ==
  \/ EndsWith(f, <<".test", ".ts">>)
  \/ EndsWith(f, <<".test", ".tsx">>)

\* grep's whole-word test \bname\b on one file
Mentions(c, name) == \E k \in 1..Len(c) : c[k] = name

\* The file names `grep -r -l \bname\b src` prints for tree t, one a line:
\* every regular file under the directory, whatever its extension, whose
\* text holds the word.
RECURSIVE GrepLines(_, _, _)
GrepLines(t, name, f) ==
  IF f > Len(PathCatalog) THEN <<>>
  ELSE (IF /\ t[f] # Absent
           /\ ~PathCatalog[f].symlink
           /\ Mentions(t[f], name)
        THEN <<PathOf(f)>> ELSE <<>>) \o GrepLines(t, name, f + 1)

\* What one invocation of the search tool yields.  "ok": grep ran to the
\* end, exit 0 when it selected a file and 1 when it selected none.
\* "tool_error": grep met an error (say an unreadable file): it still
\* prints the files it matched, and exits 2.  "undecodable": as "ok", but a
\* file name in the output is not valid UTF-8.
SearchOutcomes == {"ok", "tool_error", "undecodable"}

Grep(t, name, outcome) ==
  LET lines == GrepLines(t, name, 1)
  IN  [exit   |-> IF outcome = "tool_error" THEN 2
                  ELSE IF lines = <<>> THEN 1 ELSE 0,
       output |-> lines]

\* output.strip().split('\n'): the empty output splits to one empty name
SplitLines(output) == IF output = <<>> THEN << <<>> >> ELSE output

\* f for f in files if os.path.abspath(f) != os.path.abspath(definition_file)
NotDefinition(f, definition_file) == abspath(f) # abspath(definition_file)

\* Mutant: the test filter left out.
NotTestKeepsAll(f) == TRUE

\* Mutant: the suffix tuple names the source extensions, not the test ones.
NotTestDropsSources(f) == ~(EndsWith(f, <<".ts">>) \/ EndsWith(f, <<".tsx">>))

\* f for f in usages if not f.endswith(('.test.ts', '.test.tsx'))
NotTest(f) == ~IsTestPath(f)

\* Mutant: only the "no match" exit is answered False.
is_usedOnlyExitOne(definition_file, res) ==
  IF res.exit = 1 THEN FALSE
  ELSE LET files  == SplitLines(res.output)
           first  == SelectSeq(files, LAMBDA f : NotDefinition(f, definition_file))
           usages == SelectSeq(first, LAMBDA f : NotTest(f))
       IN  Len(usages) > 0

\* Mutant: the except branch answers True.
is_usedFailsOpen(definition_file, res) ==
  IF res.exit # 0 THEN TRUE
  ELSE LET files  == SplitLines(res.output)
           first  == SelectSeq(files, LAMBDA f : NotDefinition(f, definition_file))
           usages == SelectSeq(first, LAMBDA f : NotTest(f))
       IN  Len(usages) > 0

\* is_used(name, definition_file, directory), given what check_output did:
\* CalledProcessError (a non-zero exit) is caught and answered False.
is_used(definition_file, res) ==
  IF res.exit # 0 THEN FALSE
  ELSE LET files  == SplitLines(res.output)
           first  == SelectSeq(files, LAMBDA f : NotDefinition(f, definition_file))
           usages == SelectSeq(first, LAMBDA f : NotTest(f))
       IN  Len(usages) > 0

\* -------------------------------------------------------------------- main
\* name in ('default', 'interface', 'type', 'const', 'function', 'class')
Reserved == {"default", "interface", "type", "const", "function", "class"}

\* Mutant: 'default' missing from the tuple.
IsReservedNoDefault(name) == name \in Reserved \ {"default"}

IsReserved(name) == name \in Reserved

\* Mutant: a record already listed is not listed again.
AppendUnusedOnce(u, rec) ==
  IF \E k \in 1..Len(u) : u[k] = rec THEN u ELSE Append(u, rec)

\* unused.append((path, name))
AppendUnused(u, rec) == Append(u, rec)

\* Mutant: findings end the run with a failure status.
ExitStatusByFindings(u) == IF u = <<>> THEN 0 ELSE 1

\* main() returns and the script ends: status 0 whatever `unused` holds
ExitStatus(u) == 0

Line(kind, path, name, n) == [kind |-> kind, path |-> path, name |-> name, n |-> n]

\* for path, name in unused: print(f"{path}: {name}")
SummaryLines(u) == [k \in 1..Len(u) |-> Line("entry", u[k][1], u[k][2], 0)]

\* print("\n--- Summary ---"); if not unused: print("No unused exports found.")
SummaryBlock(u) ==
  <<Line("summary", <<>>, "", 0)>>
    \o (IF u = <<>> THEN <<Line("none", <<>>, "", 0)>> ELSE <<>>)
    \o SummaryLines(u)

VARIABLES
  tree,        \* the files under src: file id -> content, or Absent
  pc,          \* where the run is
  todo,        \* files os.walk has still to yield (lines 14-15)
  cur,         \* the file held open by `with open(...)`, 0 if none (line 18)
  exports,     \* get_exports' list (line 6), then main's (line 47)
  idx,         \* position of main's loop in exports (line 51)
  unused,      \* main's list (line 50)
  out,         \* lines printed to standard output
  open_files,  \* number of open file handles
  procs,       \* number of running search subprocesses
  results,     \* per record main's loop has passed: what its search
               \* exited with and printed and what is_used answered
  exit_status  \* the process's exit status, -1 while it runs

vars == <<tree, pc, todo, cur, exports, idx, unused, out, open_files, procs,
          results, exit_status>>

Init ==
  /\ tree \in Trees
  /\ pc = "start"
  /\ todo = {}
  /\ cur = 0
  /\ exports = <<>>
  /\ idx = 0
  /\ unused = <<>>
  /\ out = <<>>
  /\ open_files = 0
  /\ procs = 0
  /\ results = <<>>
  /\ exit_status = -1

\* An exception nobody catches: traceback, exit status 1.
Crash ==
  /\ pc' = "crashed"
  /\ exit_status' = 1

\* print(f"Scanning {src_dir} for exports..."); os.walk(directory) begins
Start ==
  /\ pc = "start"
  /\ out' = Append(out, Line("scanning", src_dir, "", 0))
  /\ todo' = {f \in FileIds : tree[f] # Absent}
  /\ pc' = "walking"
  /\ UNCHANGED <<tree, cur, exports, idx, unused, open_files, procs, results,
                 exit_status>>

\* for file in files: os.walk yields a directory's files in the order the
\* file system lists them, for which the catalog's order stands.
NextFile(td) == IF td = {} THEN 0 ELSE CHOOSE f \in td : \A g \in td : f <= g

\* a file the extension test rejects
SkipFile(f) ==
  /\ pc = "walking"
  /\ f = NextFile(todo)
  /\ ~Eligible(PathCatalog[f].file)
  /\ todo' = todo \ {f}
  /\ UNCHANGED <<tree, pc, cur, exports, idx, unused, out, open_files, procs,
                 results, exit_status>>

\* with open(path, 'r', errors='ignore') as f: the open succeeds or raises
OpenFile(f, readable) ==
  /\ pc = "walking"
  /\ f = NextFile(todo)
  /\ Eligible(PathCatalog[f].file)
  /\ IF readable
     THEN /\ cur' = f
          /\ open_files' = open_files + 1
          /\ pc' = "reading"
          /\ UNCHANGED exit_status
     ELSE /\ Crash
          /\ UNCHANGED <<cur, open_files>>
  /\ UNCHANGED <<tree, todo, exports, idx, unused, out, procs, results>>

\* content = f.read(), the three patterns, and the end of the with block
ReadFile ==
  /\ pc = "reading"
  /\ exports' = exports \o FileExports(PathOf(cur), tree[cur], 1)
  /\ open_files' = open_files - 1
  /\ cur' = 0
  /\ todo' = todo \ {cur}
  /\ pc' = "walking"
  /\ UNCHANGED <<tree, idx, unused, out, procs, results, exit_status>>

\* Mutant: `return exports` inside the loop over the files.
WalkDoneAfterAnyFile(td) == TRUE

\* os.walk is exhausted
WalkDone(td) == td = {}

\* return exports; print(f"Found {len(exports)} exports. Checking usage...")
FinishCollect ==
  /\ pc = "walking"
  /\ WalkDone(todo)
  /\ out' = Append(out, Line("found", <<>>, "", Len(exports)))
  /\ idx' = 1
  /\ pc' = "checking"
  /\ UNCHANGED <<tree, todo, cur, exports, unused, open_files, procs, results,
                 exit_status>>

Skipped == [skipped |-> TRUE, exit |-> -1, output |-> <<>>, used |-> FALSE]

\* if name in (...): continue
SkipKeyword ==
  /\ pc = "checking"
  /\ idx <= Len(exports)
  /\ IsReserved(exports[idx][2])
  /\ results' = Append(results, Skipped)
  /\ idx' = idx + 1
  /\ UNCHANGED <<tree, pc, todo, cur, exports, unused, out, open_files, procs,
                 exit_status>>

\* subprocess.check_output(cmd, ...) starts grep, or fails to (OSError)
SpawnSearch(started) ==
  /\ pc = "checking"
  /\ idx <= Len(exports)
  /\ ~IsReserved(exports[idx][2])
  /\ IF started
     THEN /\ procs' = procs + 1
          /\ pc' = "searching"
          /\ UNCHANGED exit_status
     ELSE /\ Crash
          /\ UNCHANGED procs
  /\ UNCHANGED <<tree, todo, cur, exports, idx, unused, out, open_files,
                 results>>

\* grep ends; .decode(); the rest of is_used; the body of main's loop.
\* check_output raises CalledProcessError before anything is decoded, so
\* only the output of a search that exited 0 can fail to decode.
SearchReturn(outcome) ==
  /\ pc = "searching"
  /\ outcome = "undecodable" => Grep(tree, exports[idx][2], outcome).exit = 0
  /\ procs' = procs - 1
  /\ IF outcome = "undecodable"
     THEN /\ Crash
          /\ UNCHANGED <<idx, unused, out, results>>
     ELSE LET path == exports[idx][1]
              name == exports[idx][2]
              res  == Grep(tree, name, outcome)
              used == is_used(path, res)
          IN  /\ results' = Append(results,
                   [skipped |-> FALSE, exit |-> res.exit,
                    output |-> res.output, used |-> used])
              /\ IF ~used
                 THEN /\ unused' = AppendUnused(unused, <<path, name>>)
                      /\ out' = Append(out, Line("potentially_unused", path, name, 0))
                 ELSE UNCHANGED <<unused, out>>
              /\ idx' = idx + 1
              /\ pc' = "checking"
              /\ UNCHANGED exit_status
  /\ UNCHANGED <<tree, todo, cur, exports, open_files>>

\* the summary block, and the normal end of the script
PrintSummary ==
  /\ pc = "checking"
  /\ idx > Len(exports)
  /\ out' = out \o SummaryBlock(unused)
  /\ pc' = "done"
  /\ exit_status' = ExitStatus(unused)
  /\ UNCHANGED <<tree, todo, cur, exports, idx, unused, open_files, procs,
                 results>>

Next ==
  \/ Start
  \/ \E f \in FileIds : SkipFile(f)
  \/ \E f \in FileIds, readable \in BOOLEAN : OpenFile(f, readable)
  \/ ReadFile
  \/ FinishCollect
  \/ SkipKeyword
  \/ \E started \in BOOLEAN : SpawnSearch(started)
  \/ \E outcome \in SearchOutcomes : SearchReturn(outcome)
  \/ PrintSummary

Spec == Init /\ [][Next]_vars

\* The script is one thread and each blocking call returns or raises, so a
\* step that can be taken is taken.
LiveSpec == Spec /\ WF_vars(Next)

\* ================================================================= claims
\* Records main's loop has passed and searched for.
Checked == {i \in 1..Len(results) : ~results[i].skipped}

Lines(i) == {results[i].output[k] : k \in 1..Len(results[i].output)}

\* A file of the search's report that is neither the record's defining file
\* nor a test file.
OtherUsage(i) ==
  \E f \in Lines(i) :
    /\ abspath(f) # abspath(exports[i][1])
    /\ ~IsTestPath(f)

Noticed(i) ==
  \E k \in 1..Len(out) :
    out[k] = Line("potentially_unused", exports[i][1], exports[i][2], 0)

Listed(i) == \E k \in 1..Len(unused) : unused[k] = exports[i]

SummaryAt == {k \in 1..Len(out) : out[k].kind = "summary"}

InSummary(i) ==
  \E h \in SummaryAt : \E k \in (h + 1)..Len(out) :
    out[k] = Line("entry", exports[i][1], exports[i][2], 0)

\* C1 as stated: is_used answers true exactly when the files the search
\* reports include one that is neither the defining file nor a test file,
\* and a record whose report holds no such file is reported as unused.
C1_UsedIffReportedElsewhere ==
  \A i \in Checked :
    /\ results[i].used <=> OtherUsage(i)
    /\ ~OtherUsage(i) => (Noticed(i) /\ Listed(i))

\* C1 amended: is_used answers true exactly when the search exits with
\* status 0 and the files it reports include one that is neither the
\* defining file nor a test file; a record whose report holds no such file
\* is reported as unused.
C1_UsedIffReportedElsewhereOnExitZero ==
  \A i \in Checked :
    /\ results[i].used <=> (results[i].exit = 0 /\ OtherUsage(i))
    /\ ~OtherUsage(i) => (Noticed(i) /\ Listed(i))

\* A record whose search succeeded and named only its defining file and a
\* test file, next to a record another source file uses.
C1_Witness ==
  /\ \E i \in Checked :
       /\ results[i].exit = 0
       /\ Len(results[i].output) >= 2
       /\ ~results[i].used
  /\ \E i \in Checked : results[i].used

\* C2: the run never ends in an uncaught exception.
C2_NeverCrashes == pc # "crashed"

\* C3: a search that ends with a non-zero exit makes the usage check answer
\* "not used", the record gets its notice and its place in the list of
\* unused records, and the summary of a finished run has its entry.
C3_NonZeroExitReported ==
  \A i \in Checked :
    results[i].exit # 0 =>
      /\ ~results[i].used
      /\ Noticed(i)
      /\ Listed(i)
      /\ pc = "done" => InSummary(i)

\* A finished run in which one search found no file and another failed after
\* naming a file that uses the symbol.
C3_Witness ==
  /\ pc = "done"
  /\ \E i \in Checked : results[i].exit = 1
  /\ \E i \in Checked : results[i].exit = 2 /\ OtherUsage(i)

\* C4 as stated: a search that reports no file at all leaves the symbol
\* unflagged.
C4_NoMatchTreatedAsUsed ==
  \A i \in Checked :
    results[i].output = <<>> =>
      /\ results[i].used
      /\ ~Noticed(i)
      /\ ~Listed(i)

\* C4 amended: a search that reports no file at all makes the usage check
\* answer "not used", and the symbol is flagged.
C4_NoMatchFlagged ==
  \A i \in Checked :
    results[i].output = <<>> =>
      /\ ~results[i].used
      /\ Noticed(i)
      /\ Listed(i)
      /\ pc = "done" => InSummary(i)

\* A finished run with a search that ran to its end and selected no file.
C4_Witness ==
  /\ pc = "done"
  /\ \E i \in Checked : results[i].output = <<>> /\ results[i].exit = 1

\* C5: no notice, no summary entry and no element of the unused list names
\* a reserved word.
C5_ReservedNeverReported ==
  /\ \A k \in 1..Len(out) :
       out[k].kind \in {"potentially_unused", "entry"} => out[k].name \notin Reserved
  /\ \A k \in 1..Len(unused) : unused[k][2] \notin Reserved

\* A finished run whose collector captured `default` from a file that is
\* the only one to hold the word.
C5_Witness ==
  /\ pc = "done"
  /\ \E i \in 1..Len(exports) :
       /\ exports[i][2] = "default"
       /\ Cardinality({f \in FileIds : tree[f] # Absent /\ Mentions(tree[f], "default")}) = 1

\* The words between `export {` and the brace that closes it.
BraceWords(c) ==
  {c[k] : k \in {k \in 1..Len(c) :
     /\ IsWord(c[k])
     /\ \E i \in 1..(k - 2) :
          /\ c[i] = "export"
          /\ c[i + 1] = "{"
          /\ \A j \in (i + 2)..k : c[j] # "}"
          /\ \E e \in (k + 1)..Len(c) : c[e] = "}"}}

\* The eligible files the collector has read.
Collected ==
  {f \in FileIds :
     /\ tree[f] # Absent
     /\ Eligible(PathCatalog[f].file)
     /\ pc \notin {"start", "crashed"}
     /\ f \notin todo}

\* C6: every identifier inside the braces of a re-export list of a file the
\* collector has read is the name of an export record of that file.
C6_EveryBraceWordCollected ==
  \A f \in Collected : \A w \in BraceWords(tree[f]) :
    \E k \in 1..Len(exports) : exports[k] = <<PathOf(f), w>>

\* The records the loop has passed whose name is not reserved and whose
\* usage check answered "not used", in the order of collection.
RECURSIVE FlaggedUpTo(_)
FlaggedUpTo(n) ==
  IF n = 0 THEN <<>>
  ELSE FlaggedUpTo(n - 1)
         \o (IF exports[n][2] \notin Reserved /\ ~results[n].used
             THEN <<exports[n]>> ELSE <<>>)

\* C7: the unused list is the collected list filtered, order and duplicates
\* kept; the summary of a finished run is the header, then the "none" line
\* exactly when that list is empty, then one entry per element.
C7_SummaryIsFilteredExports ==
  /\ Len(results) <= Len(exports)
  /\ unused = FlaggedUpTo(Len(results))
  /\ pc = "done" =>
       /\ Len(results) = Len(exports)
       /\ Cardinality(SummaryAt) = 1
       /\ LET h    == CHOOSE k \in SummaryAt : TRUE
              tail == SubSeq(out, h + 1, Len(out))
              want == FlaggedUpTo(Len(exports))
          IN  /\ (\E k \in 1..Len(out) : out[k].kind = "none") <=> (want = <<>>)
              /\ IF want = <<>>
                 THEN Len(tail) = 1 /\ tail[1].kind = "none"
                 ELSE /\ Len(tail) = Len(want)
                      /\ \A k \in 1..Len(want) :
                           /\ tail[k].kind = "entry"
                           /\ tail[k].path = want[k][1]
                           /\ tail[k].name = want[k][2]

\* A finished run that lists the same record twice.
C7_Witness ==
  /\ pc = "done"
  /\ \E j, k \in 1..Len(unused) : j < k /\ unused[j] = unused[k]

\* C8: no search starts before the walk over the tree has ended and its
\* last file is closed; every notice precedes the summary; the summary
\* comes after the check of the last record; at most one file is open and
\* at most one search runs.
C8_CollectThenCheckThenReport ==
  /\ (procs > 0 \/ results # <<>> \/ pc \in {"checking", "searching"})
       => (todo = {} /\ cur = 0 /\ open_files = 0
           /\ \E k \in 1..Len(out) : out[k].kind = "found")
  /\ \A h \in SummaryAt : \A k \in 1..Len(out) :
       out[k].kind = "potentially_unused" => k < h
  /\ SummaryAt # {} => (Len(results) = Len(exports) /\ procs = 0)
  /\ open_files \in {0, 1}
  /\ procs \in {0, 1}
  /\ ~(open_files = 1 /\ procs = 1)

\* A finished run over two files or more that searched and printed a notice.
C8_Witness ==
  /\ pc = "done"
  /\ Cardinality({exports[k][1] : k \in 1..Len(exports)}) >= 2
  /\ \E k \in 1..Len(out) : out[k].kind = "potentially_unused"

\* C9: a run in which no read and no search raises ends by printing the
\* summary and exiting with status 0, whether or not it found anything.
C9_TerminatesWithSuccess ==
  ([](pc # "crashed")) => <>(pc = "done" /\ exit_status = 0 /\ SummaryAt # {})

\* A run that found unused exports and ended with status 0.
C9_Witness ==
  /\ pc = "done"
  /\ exit_status = 0
  /\ unused # <<>>

\* Records of another file with the same name as record i.
Namesakes(i) ==
  {j \in 1..Len(exports) :
     /\ exports[j][2] = exports[i][2]
     /\ exports[j][1] # exports[i][1]}

\* C10 as stated: the check of a record whose name another source file
\* exports too never reports it.
C10_NamesakeNeverReported ==
  [][(pc = "searching" /\ Namesakes(idx) # {}) => (unused' = unused /\ out' = out)]_vars

\* C10 amended: the check of a record whose search exits with status 0 and
\* names another source file that exports the same name answers "used" and
\* reports nothing.
C10_NamesakeListedNotReported ==
  [][(/\ pc = "searching"
      /\ pc' = "checking"
      /\ results'[idx].exit = 0
      /\ \E j \in Namesakes(idx) : \E k \in 1..Len(results'[idx].output) :
           results'[idx].output[k] = exports[j][1])
     => (results'[idx].used /\ unused' = unused /\ out' = out)]_vars

\* Two files export the same name, nothing else holds it, both checks
\* succeeded and neither record is flagged.
C10_Witness ==
  /\ pc = "done"
  /\ unused = <<>>
  /\ \E i \in Checked :
       /\ results[i].exit = 0
       /\ \E j \in Namesakes(i) : Lines(i) = {exports[i][1], exports[j][1]}

====
